---------------------------- MODULE Spec2Model ----------------------------
(***************************************************************************)
(* GoStreamProxy: a TLS reverse proxy that rewrites the request path       *)
(* through a hot-reloadable prefix map (routes.json), injects fixed        *)
(* headers and streams the response through a pooled buffer.               *)
(*                                                                         *)
(* The module holds several specifications over one set of variables:      *)
(*   Spec        one request through handler, ReverseProxy and Director    *)
(*   SpecRoutes  main's initial load, the reloader goroutine, the          *)
(*               routes.json file and concurrent findRoute calls           *)
(*   SpecRoutesFair  the same in coarser steps, with a reloader that       *)
(*               keeps ticking                                             *)
(*   SpecPool    the bufferPool (Get, Put, idle timer, cleanup)            *)
(*   SpecFind    findRoute on every path                                   *)
(*   SpecShape, SpecDual   the variants of part_001 and part_002           *)
(*   SpecCount   request tasks adding to networkDataCount side by side     *)
(* Strings are sequences of one-character strings, so that splitting,      *)
(* trimming and cleaning of paths are computed as the Go code computes     *)
(* them.                                                                   *)
(***************************************************************************)
EXTENDS Integers, Sequences, FiniteSets, TLC

(***************************************************************************)
(* Bounds of the model.                                                    *)
(***************************************************************************)
\* longest request path (in characters) a client sends
MaxPathLen == 5

(***************************************************************************)
(* Strings.                                                                *)
(***************************************************************************)
\* the characters request paths are built from
PathChars == {"/", ".", "a", "A"}

EmptyStr == <<>>

Slash == <<"/">>

RECURSIVE StringsUpTo(_)
\* all strings over PathChars of length at most n
StringsUpTo(n) ==
    IF n = 0 THEN {EmptyStr}
    ELSE LET shorter == StringsUpTo(n - 1)
         IN  shorter \cup {Append(s, c) : s \in {t \in shorter : Len(t) = n - 1}, c \in PathChars}

\* strings.HasPrefix
HasPrefix(s, prefix) ==
    /\ Len(s) >= Len(prefix)
    /\ SubSeq(s, 1, Len(prefix)) = prefix

\* a plausible slip: strings.TrimLeft(path, "/"), which strips every leading slash
TrimLeftAll(s, prefix) ==
    LET lead == {i \in 0..Len(s) : \A j \in 1..i : s[j] = prefix[1]}
        k == CHOOSE i \in lead : \A j \in lead : j <= i
    IN  SubSeq(s, k + 1, Len(s))

\* strings.TrimPrefix: s without the leading prefix, once, when it has it
TrimPrefix(s, prefix) ==
    IF HasPrefix(s, prefix) THEN SubSeq(s, Len(prefix) + 1, Len(s)) ELSE s

\* strings.Index for a one-character separator: 0 when absent (Go: -1)
IndexOf(s, c) ==
    IF \E i \in 1..Len(s) : s[i] = c
    THEN CHOOSE i \in 1..Len(s) : s[i] = c /\ \A j \in 1..(i - 1) : s[j] # c
    ELSE 0

\* strings.SplitN(s, "/", 2): one part when s holds no separator, else two
SplitN2(s, c) ==
    LET i == IndexOf(s, c)
    IN  IF i = 0 THEN <<s>>
        ELSE <<SubSeq(s, 1, i - 1), SubSeq(s, i + 1, Len(s))>>

\* strings.Join(elems, "/")
RECURSIVE JoinWithSlash(_)
JoinWithSlash(elems) ==
    IF Len(elems) = 0 THEN EmptyStr
    ELSE IF Len(elems) = 1 THEN elems[1]
    ELSE elems[1] \o Slash \o JoinWithSlash(Tail(elems))

(***************************************************************************)
(* path/filepath of the Go standard library, as main.go's Director uses it *)
(* (the Unix build: the separator is "/").  Clean is the library's loop    *)
(* over the characters of the path: r is the read index (1-based here),    *)
(* out the output written so far, dotdot the length of out below which a   *)
(* ".." element may not backtrack.                                         *)
(***************************************************************************)
\* the ".." case's backtrack loop, entered after the first out.w--: w drops
\* while it is above dotdot and the character just dropped is not "/"
\* (Go's out.index(out.w) is buf[w + 1] here, where indices start at 1)
RECURSIVE Backtrack(_, _, _)
Backtrack(buf, w, dotdot) ==
    IF w > dotdot /\ buf[w + 1] # "/"
    THEN Backtrack(buf, w - 1, dotdot)
    ELSE w

\* the end (exclusive) of the path element that starts at r
RECURSIVE ElemEnd(_, _)
ElemEnd(path, r) ==
    IF r <= Len(path) /\ path[r] # "/" THEN ElemEnd(path, r + 1) ELSE r

RECURSIVE CleanLoop(_, _, _, _, _)
CleanLoop(path, r, out, dotdot, rooted) ==
    LET n == Len(path)
    IN  IF r > n THEN out
        ELSE IF path[r] = "/"
        THEN \* empty path element
             CleanLoop(path, r + 1, out, dotdot, rooted)
        ELSE IF path[r] = "." /\ (r = n \/ path[r + 1] = "/")
        THEN \* . element
             CleanLoop(path, r + 1, out, dotdot, rooted)
        ELSE IF path[r] = "." /\ path[r + 1] = "." /\ (r + 1 = n \/ path[r + 2] = "/")
        THEN \* .. element: remove to last /
             IF Len(out) > dotdot
             THEN CleanLoop(path, r + 2,
                            SubSeq(out, 1, Backtrack(out, Len(out) - 1, dotdot)),
                            dotdot, rooted)
             ELSE IF ~rooted
             THEN LET o2 == (IF Len(out) > 0 THEN out \o Slash ELSE out) \o <<".", ".">>
                  IN  CleanLoop(path, r + 2, o2, Len(o2), rooted)
             ELSE CleanLoop(path, r + 2, out, dotdot, rooted)
        ELSE \* real path element: add a slash if needed, copy the element
             LET e == ElemEnd(path, r)
                 o1 == IF (rooted /\ Len(out) # 1) \/ (~rooted /\ Len(out) # 0)
                       THEN out \o Slash ELSE out
             IN  CleanLoop(path, e, o1 \o SubSeq(path, r, e - 1), dotdot, rooted)

\* path.Clean
Clean(path) ==
    IF path = EmptyStr THEN <<".">>
    ELSE LET rooted == path[1] = "/"
             out == IF rooted THEN CleanLoop(path, 2, Slash, 1, TRUE)
                    ELSE CleanLoop(path, 1, EmptyStr, 0, FALSE)
         IN  IF out = EmptyStr THEN <<".">> ELSE out

\* a plausible slip: the elements concatenated with "/" and never cleaned
JoinNoClean(elems) ==
    JoinWithSlash(elems)

\* filepath.Join: the elements from the first non-empty one on, joined by
\* "/" and cleaned; "" when every element is empty
FilepathJoin(elems) ==
    IF \A i \in 1..Len(elems) : elems[i] = EmptyStr THEN EmptyStr
    ELSE LET first == CHOOSE i \in 1..Len(elems) :
                          elems[i] # EmptyStr /\ \A j \in 1..(i - 1) : elems[j] = EmptyStr
         IN  Clean(JoinWithSlash(SubSeq(elems, first, Len(elems))))

(***************************************************************************)
(* The route table.  A table is a Go map[string]string: a function from    *)
(* its keys to their target segments; the nil map is the empty function.   *)
(***************************************************************************)
NilMap == <<>>

\* the three results of findRoute
RouteResult(route, remaining, found) ==
    [route |-> route, remaining |-> remaining, found |-> found]

\* route, exists := routes[prefix]
MapLookup(table, key) ==
    IF key \in DOMAIN table
    THEN [value |-> table[key], exists |-> TRUE]
    ELSE [value |-> EmptyStr, exists |-> FALSE]

\* findRoute's body, on the table the read lock gives it
FindRouteIn(table, path) ==
    LET parts == SplitN2(TrimPrefix(path, Slash), "/")
    IN  IF Len(parts) < 1 THEN RouteResult(EmptyStr, EmptyStr, FALSE)
        ELSE LET prefix == parts[1]
                 hit == MapLookup(table, prefix)
             IN  IF hit.exists
                 THEN RouteResult(hit.value,
                                  IF Len(parts) > 1 THEN parts[2] ELSE EmptyStr,
                                  TRUE)
                 ELSE RouteResult(EmptyStr, EmptyStr, FALSE)

(***************************************************************************)
(* Requests and headers.  A header map is a function from the names it     *)
(* holds to their values (http.Header with one value per name).            *)
(***************************************************************************)
NoHeaders == <<>>

\* http.Header.Get: "" for an absent name
HeaderGet(h, k) ==
    IF k \in DOMAIN h THEN h[k] ELSE ""

\* http.Header.Set
HeaderSet(h, k, v) ==
    [x \in (DOMAIN h) \cup {k} |-> IF x = k THEN v ELSE h[x]]

\* http.Header.Del
HeaderDel(h, k) ==
    [x \in (DOMAIN h) \ {k} |-> h[x]]

\* url.Parse(targetURL): the fixed upstream origin
target ==
    [Scheme |-> "https", Host |-> "www.xxx.com"]

fixedHeaders ==
    [x \in {"Host", "User-Agent", "Referer"} |->
        CASE x = "Host" -> "www.xxx.com"
          [] x = "User-Agent" -> "Mozilla/5.0 (Windows NT 10.0; Win64; x64) AppleWebKit/537.36 (KHTML, like Gecko) Chrome/136.0.0.0 Safari/537.36"
          [] x = "Referer" -> "https://www.xxx.com"]

\* for k, v := range fixedHeaders { req.Header.Set(k, v) }
\* (the names are distinct, so the map's iteration order does not matter)
ApplyFixedHeaders(h) ==
    [x \in (DOMAIN h) \cup (DOMAIN fixedHeaders) |->
        IF x \in DOMAIN fixedHeaders THEN fixedHeaders[x] ELSE h[x]]

\* a request: the fields of *http.Request the proxy reads or writes
Request(scheme, urlHost, host, path, header) ==
    [URLScheme |-> scheme, URLHost |-> urlHost, Host |-> host,
     URLPath |-> path, Header |-> header]

\* a plausible slip: the unmatched branch falls through into the rewrite
DirectorNoReturn(table, req) ==
    LET found == FindRouteIn(table, req.URLPath)
        marked == IF found.found THEN req.Header
                  ELSE HeaderSet(req.Header, "X-Proxy-Invalid", "1")
    IN  Request(target.Scheme, target.Host, target.Host,
                FilepathJoin(<<Slash, found.route, found.remaining>>),
                HeaderDel(HeaderDel(ApplyFixedHeaders(marked),
                                    "Accept-Encoding"), "If-Modified-Since"))

\* proxy.Director: the outgoing request after the rewrite
Director(table, req) ==
    LET found == FindRouteIn(table, req.URLPath)
    IN  IF ~found.found
        THEN [req EXCEPT !.Header = HeaderSet(@, "X-Proxy-Invalid", "1")]
        ELSE Request(target.Scheme, target.Host, target.Host,
                     FilepathJoin(<<Slash, found.route, found.remaining>>),
                     HeaderDel(HeaderDel(ApplyFixedHeaders(req.Header),
                                         "Accept-Encoding"), "If-Modified-Since"))

\* the handler's test of the inbound request, before proxy.ServeHTTP:
\* r.Header.Get("X-Proxy-Invalid") == "1"
HandlerRejects(req) ==
    HeaderGet(req.Header, "X-Proxy-Invalid") = "1"

\* Transport.RoundTrip refuses a request whose URL names no http(s) scheme
\* or no host, before it dials anything
TransportRefuses(req) ==
    \/ req.URLScheme \notin {"http", "https"}
    \/ req.URLHost = ""

(***************************************************************************)
(* The buffer pool.  A buffer is a []byte: its capacity and its length.    *)
(* A bufferPool value is the record of its fields: pool (the buffers the   *)
(* sync.Pool holds), size, active, and the state of idleTimer.             *)
(***************************************************************************)
bufferSize == 16 * 1024 * 1024

\* cleanup's loop bound: "for i := 0; i < 10; i++"
cleanupTries == 10

Buffer(c, l) ==
    [cap |-> c, len |-> l]

\* sync.Pool's New: make([]byte, size)
NewBuffer(size) ==
    Buffer(size, size)

\* newBufferPool: the timer is created and stopped at once
NewBufferPool(size) ==
    [pool |-> <<>>, size |-> size, active |-> 0, timer |-> "stopped"]

\* s without its i-th element
RemoveAt(s, i) ==
    SubSeq(s, 1, i - 1) \o SubSeq(s, i + 1, Len(s))

\* sync.Pool.Get: one of the pooled buffers, or a fresh one from New when
\* it holds none.  The outcomes: the buffer, the pool left, whether New ran.
SyncPoolGet(pool, size) ==
    IF Len(pool) = 0
    THEN {[buf |-> NewBuffer(size), pool |-> pool, fresh |-> TRUE]}
    ELSE {[buf |-> pool[i], pool |-> RemoveAt(pool, i), fresh |-> FALSE] : i \in 1..Len(pool)}

\* a plausible slip: Get forgets to count the checkout
PoolGetNoCount(b) ==
    {[b |-> [b EXCEPT !.pool = g.pool, !.timer = "stopped"],
      buf |-> g.buf, fresh |-> g.fresh] : g \in SyncPoolGet(b.pool, b.size)}

\* bufferPool.Get, under b.mu: stop the idle timer, count the checkout,
\* take a buffer
PoolGet(b) ==
    {[b |-> [b EXCEPT !.pool = g.pool, !.timer = "stopped", !.active = @ + 1],
      buf |-> g.buf, fresh |-> g.fresh] : g \in SyncPoolGet(b.pool, b.size)}

\* a plausible slip: every buffer at least as large is pooled as it comes
\* (the test of the earlier variant, cap(buf) >= bufferSize, without the reslice)
PoolPutAtLeast(b, buf) ==
    LET kept == IF buf.cap >= b.size THEN Append(b.pool, buf) ELSE b.pool
        act == b.active - 1
    IN  [b EXCEPT !.pool = kept, !.active = act,
                  !.timer = IF act <= 0 THEN "pending" ELSE @]

\* a plausible slip: the buffer taken is pooled twice on its way back
PoolPutTwice(b, buf) ==
    LET kept == IF buf.cap = b.size
                THEN b.pool \o <<Buffer(buf.cap, b.size), Buffer(buf.cap, b.size)>>
                ELSE b.pool
        act == b.active - 1
    IN  [b EXCEPT !.pool = kept, !.active = act,
                  !.timer = IF act <= 0 THEN "pending" ELSE @]

\* a plausible slip: Put restarts the idle timer whatever active is
PoolPutAlwaysArms(b, buf) ==
    LET kept == IF buf.cap = b.size
                THEN Append(b.pool, Buffer(buf.cap, b.size))
                ELSE b.pool
    IN  [b EXCEPT !.pool = kept, !.active = @ - 1, !.timer = "pending"]

\* bufferPool.Put, under b.mu: pool the buffer, resliced to size, only when
\* its capacity is size; count it back; (re)start the idle timer when no
\* buffer is out
PoolPut(b, buf) ==
    LET kept == IF buf.cap = b.size
                THEN Append(b.pool, Buffer(buf.cap, b.size))
                ELSE b.pool
        act == b.active - 1
    IN  [b EXCEPT !.pool = kept, !.active = act,
                  !.timer = IF act <= 0 THEN "pending" ELSE @]

\* the number of pooled buffers cleanup's loop takes out: sync.Pool.Get
\* never returns nil here (New is set), so the loop runs all its rounds and
\* every round past the last pooled buffer allocates a fresh one
CleanupTaken(n) ==
    IF n < cleanupTries THEN n ELSE cleanupTries

\* a plausible slip: cleanup drains without looking at active
PoolCleanupAlways(b) ==
    LET k == CleanupTaken(Len(b.pool))
    IN  [b |-> [b EXCEPT !.pool = SubSeq(@, k + 1, Len(@))],
         drained |-> TRUE, allocated |-> cleanupTries - k]

\* bufferPool.cleanup, under b.mu; drained tells whether the branch ran,
\* allocated how many buffers New made for the loop
PoolCleanup(b) ==
    IF b.active <= 0
    THEN LET k == CleanupTaken(Len(b.pool))
         IN  [b |-> [b EXCEPT !.pool = SubSeq(@, k + 1, Len(@))],
              drained |-> TRUE, allocated |-> cleanupTries - k]
    ELSE [b |-> b, drained |-> FALSE, allocated |-> 0]

(***************************************************************************)
(* State.                                                                  *)
(***************************************************************************)
VARIABLES
    \* the route table
    heap,       \* the maps in memory: address -> table, or Free
    routes,     \* the global routes: the address of the active map, 0 for nil
    lastMod,    \* the global lastMod: 0 is the zero time.Time
    rw,         \* routeMutex: the writer, a waiting writer, the readers
    file,       \* routes.json as the file system holds it
    loader,     \* main's initial load and then the reloader goroutine
    lk,         \* the findRoute calls under way, one per request task
    cyc,        \* the load cycle under way or just ended (history)
    prev,       \* the load cycle before it (history)
    due,        \* the file has been due for loading since it was last changed (history)
    \* one request through the handler
    pc,         \* the handler's position
    inreq,      \* the inbound request r
    outreq,     \* ReverseProxy's clone of r, which the Director rewrites
    resp,       \* the upstream response, as ModifyResponse leaves it
    upres,      \* the upstream response as it came (history)
    outcome,    \* what the client got
    serveCalled,    \* proxy.ServeHTTP was entered
    tripCalled,     \* Transport.RoundTrip was called
    dialed,     \* the host the transport connected to, "" for none
    logs,       \* the log records written for the request
    networkDataCount,   \* the running total, in bytes
    sh,         \* the request tasks inside ModifyResponse at once
    declared,   \* the declared sizes of the responses they shaped, summed (history)
    \* the buffer pool
    bp,         \* the bufferPool value (proxy.BufferPool)
    held,       \* buffers checked out: Gets not yet matched by a Put
    fired,      \* timer callbacks started and not yet run (waiting for b.mu)
    stale,      \* those of them that a Get has overtaken since they started (history)
    hist        \* the last pool operation and the one before it (history)

tableVars == <<heap, routes, lastMod, rw, file, loader, lk, cyc, prev, due>>

proxyVars == <<pc, inreq, outreq, resp, upres, outcome, serveCalled, tripCalled, dialed,
               logs, networkDataCount, sh, declared>>

poolVars == <<bp, held, fired, stale, hist>>

vars == <<tableVars, proxyVars, poolVars>>

\* a heap cell: a map that is in use, or nothing
Cell(t) ==
    [live |-> TRUE, table |-> t]

Free == [live |-> FALSE, table |-> <<>>]

\* the map at an address; the nil map reads as an empty one
TableAt(h, a) ==
    IF a = 0 THEN NilMap ELSE h[a].table

\* the table a lookup sees under the read lock
ActiveTable ==
    TableAt(heap, routes)

(***************************************************************************)
(* SpecPool: the bufferPool under concurrent Get and Put, its idle timer,  *)
(* the timer's cleanup callback, and the runtime emptying the sync.Pool.   *)
(* Get, Put and cleanup each run wholly under b.mu, so each is one step.   *)
(***************************************************************************)
\* most buffers checked out at once
MaxHeld == 11

\* most timer callbacks waiting for b.mu at once
MaxFired == 2

NoBuffer == Buffer(0, 0)

NoHist ==
    [op |-> "none", before |-> 0, activeBefore |-> 0, timerBefore |-> "stopped",
     buf |-> NoBuffer, prevOp |-> "none", prevBefore |-> 0,
     drained |-> FALSE, allocated |-> 0, stale |-> FALSE]

\* the record of a pool operation op on buffer buf, taken in the state before it
Record(op, buf) ==
    [op |-> op, before |-> Len(bp.pool), activeBefore |-> bp.active,
     timerBefore |-> bp.timer, buf |-> buf,
     prevOp |-> hist.op, prevBefore |-> hist.before,
     drained |-> FALSE, allocated |-> 0, stale |-> FALSE]

\* the buffers a holder may hand to Put: the one it got, resliced or not,
\* or one of another capacity
PutBuffers ==
    {Buffer(c, l) : c \in {bufferSize - 1, bufferSize, bufferSize + 1},
                    l \in {0, bufferSize - 1}}
    \cup {NewBuffer(bufferSize), NewBuffer(bufferSize + 1)}

\* newBufferPool(bufferSize, bufferIdleTimeout), nothing checked out
FreshPool ==
    /\ bp = NewBufferPool(bufferSize)
    /\ held = 0
    /\ fired = 0
    /\ stale = 0
    /\ hist = NoHist

\* no request in the handler
NoRequest == [URLScheme |-> "", URLHost |-> "", Host |-> "", URLPath |-> EmptyStr,
              Header |-> NoHeaders]

NoResponse == [StatusCode |-> 0, Header |-> NoHeaders, ContentLength |-> 0,
               TransferEncoding |-> <<>>]

\* the request tasks whose ModifyResponse calls run side by side
Shapers == {1, 2}

\* a request task that is not in ModifyResponse
IdleShaper == [pc |-> "idle", length |-> 0, sum |-> 0, n |-> 0]

HandlerIdle ==
    /\ pc = "idle"
    /\ inreq = NoRequest
    /\ outreq = NoRequest
    /\ resp = NoResponse
    /\ upres = NoResponse
    /\ sh = [t \in Shapers |-> IdleShaper]
    /\ declared = 0
    /\ outcome = "none"
    /\ serveCalled = FALSE
    /\ tripCalled = FALSE
    /\ dialed = ""
    /\ logs = {}
    /\ networkDataCount = 0

(***************************************************************************)
(* SpecRoutes: routes.json, main's initial loadRoutes, the reloader        *)
(* goroutine and the findRoute calls of request tasks.  loadRoutes runs    *)
(* step by step (Stat, ReadFile, Unmarshal, Lock, the two assignments,     *)
(* Unlock), and so does findRoute (RLock, the read of routes, the map      *)
(* access, RUnlock), so that every interleaving the locks allow is taken.  *)
(***************************************************************************)
\* latest modification time routes.json gets
MaxTime == 2

\* the request task whose findRoute calls run beside the loader; the read
\* lock admits any number of them and none changes what another sees
Readers == {1}

ModTimes == 1..MaxTime

\* the route tables routes.json declares
FileTables ==
    { <<"a">> :> <<"b">>,
      (<<"a">> :> <<"b", "/", "a">>) @@ (<<"A">> :> <<"b">>) }

\* a document: {"routes": {...}} with its table; text that is no JSON for a
\* Config, be it cut short or with a routes field of another type
\* ("malformed"); a JSON object without a routes field ("noroutes")
Document(kind, table) ==
    [kind |-> kind, table |-> table]

FileContents ==
    {Document("routes", t) : t \in FileTables}
    \cup {Document(k, NilMap) : k \in {"malformed", "noroutes"}}

NoDocument == Document("none", NilMap)

\* the text is JSON that fits a Config
WellFormed(doc) ==
    doc.kind \in {"routes", "noroutes"}

\* the file: present and readable ("ok"), present and unreadable, or missing
FileStates ==
    {[state |-> "ok", content |-> c, mtime |-> m] : c \in FileContents, m \in ModTimes}
    \cup {[state |-> "unreadable", content |-> NoDocument, mtime |-> m] : m \in ModTimes}
    \cup {[state |-> "missing", content |-> NoDocument, mtime |-> 0]}

\* a plausible slip: !fileInfo.ModTime().Before(lastMod)
ModTimeNotBefore(m, last) ==
    m >= last

\* fileInfo.ModTime().After(lastMod)
ModTimeAfter(m, last) ==
    m > last

\* a plausible slip: json.Unmarshal's error is not tested
UnmarshalErrorIgnored(doc) ==
    FALSE

\* json.Unmarshal(file, &config) returns an error
UnmarshalError(doc) ==
    doc.kind = "malformed"

\* a free heap cell
FreshAddress(h) ==
    CHOOSE a \in DOMAIN h : h[a] = Free

\* a plausible slip: config.Routes is preset to the global routes, so that
\* json.Unmarshal decodes into the map the readers use
DecodeIntoActive(h, active) ==
    IF active # 0 THEN active ELSE FreshAddress(h)

\* where json.Unmarshal puts the decoded map: config is a new struct, its
\* Routes field nil, so the map is a new one
DecodeTarget(h, active) ==
    FreshAddress(h)

\* json.Unmarshal into the map at address a: a new map holds the document's
\* entries; a map that exists keeps its entries besides
Decoded(h, a, table) ==
    [h EXCEPT ![a] = IF @ = Free THEN Cell(table) ELSE Cell(table @@ @.table)]

NoCycle ==
    [boot |-> FALSE, statM |-> 0, bad |-> FALSE, didRead |-> FALSE, didParse |-> FALSE,
     outcome |-> "running", logged |-> "", table0 |-> NilMap, lastMod0 |-> 0]

\* a load cycle starts: what it finds in place
StartCycle(boot) ==
    [NoCycle EXCEPT !.boot = boot, !.table0 = ActiveTable, !.lastMod0 = lastMod]

NoPrev == [statM |-> 0, outcome |-> "none", didParse |-> FALSE]

NoDue == [claimed |-> FALSE, newer |-> FALSE]

IdleLookup ==
    [pc |-> "idle", path |-> EmptyStr, m |-> 0,
     result |-> RouteResult(EmptyStr, EmptyStr, FALSE), locked |-> NilMap]

\* the table is in place and nothing loads or looks up
StaticTable(t) ==
    /\ heap = <<Cell(t), Free>>
    /\ routes = 1
    /\ lastMod = 1
    /\ rw = [writer |-> FALSE, waiting |-> FALSE, readers |-> {}]
    /\ file = [state |-> "ok", content |-> Document("routes", t), mtime |-> 1]
    /\ loader = [pc |-> "ticker", boot |-> FALSE, modTime |-> 1,
                 data |-> NoDocument, parsed |-> 0]
    /\ lk = [r \in Readers |-> IdleLookup]
    /\ cyc = NoCycle
    /\ prev = NoPrev
    /\ due = NoDue

\* the process starts: main is about to call loadRoutes
InitRoutes ==
    /\ heap = <<Free, Free>>
    /\ routes = 0
    /\ lastMod = 0
    /\ rw = [writer |-> FALSE, waiting |-> FALSE, readers |-> {}]
    /\ file \in FileStates
    /\ loader = [pc |-> "stat", boot |-> TRUE, modTime |-> 0,
                 data |-> NoDocument, parsed |-> 0]
    /\ lk = [r \in Readers |-> IdleLookup]
    /\ cyc = [NoCycle EXCEPT !.boot = TRUE]
    /\ prev = NoPrev
    /\ due = NoDue
    /\ HandlerIdle
    /\ FreshPool

\* the server runs: main got past the initial load
Serving ==
    ~loader.boot /\ loader.pc # "fatal"

\* routes.json is readable and holds a document with a routes mapping
StableFiles ==
    {f \in FileStates : f.state = "ok" /\ f.content.kind = "routes"}

\* a load cycle is between its Stat and its assignment of lastMod
CycleInFlight ==
    loader.pc \in {"read", "unmarshal", "lock", "locking", "publish"}

\* routes.json is readable and well-formed and its modification time is
\* later than lastMod, while the server runs
DueClaimed ==
    /\ Serving
    /\ file \in StableFiles
    /\ ModTimeAfter(file.mtime, lastMod)

\* and also later than the time a load cycle in progress has from its Stat
DueNewer ==
    /\ DueClaimed
    /\ CycleInFlight => ModTimeAfter(file.mtime, loader.modTime)

\* the history of a step: whether the file has been due at some point since
\* it was last changed
DueNext ==
    [claimed |-> (file' = file /\ due.claimed) \/ DueClaimed',
     newer |-> (file' = file /\ due.newer) \/ DueNewer']

\* a plausible slip: main logs the error of the initial load and goes on
ReturnsNotFatal(how, bad) ==
    /\ loader' = [loader EXCEPT !.pc = "ticker", !.boot = FALSE]
    /\ cyc' = [cyc EXCEPT
                    !.outcome = how,
                    !.bad = bad,
                    !.logged = IF how # "failed" THEN @
                               ELSE IF loader.boot THEN "initial load failed"
                               ELSE "reload failed"]

\* loadRoutes returns (bad: the source could not be stat'ed, read or parsed
\* in this cycle): main ends the process on an error of the initial
\* load and otherwise starts the reloader; the reloader logs an error and
\* waits for the next tick
Returns(how, bad) ==
    /\ loader' = [loader EXCEPT
                    !.pc = IF loader.boot /\ how = "failed" THEN "fatal" ELSE "ticker",
                    !.boot = IF how = "failed" THEN @ ELSE FALSE]
    /\ cyc' = [cyc EXCEPT
                    !.outcome = how,
                    !.bad = bad,
                    !.logged = IF how # "failed" THEN @
                               ELSE IF loader.boot THEN "initial load failed"
                               ELSE "reload failed"]

\* os.Stat fails
StatFails ==
    /\ loader.pc = "stat"
    /\ file.state = "missing"
    /\ Returns("failed", TRUE)
    /\ UNCHANGED <<heap, routes, lastMod, rw, file, lk, prev, proxyVars, poolVars>>
    /\ due' = DueNext

\* the file is not newer than lastMod: return nil
StatUnchanged ==
    /\ loader.pc = "stat"
    /\ file.state # "missing"
    /\ ~ModTimeAfter(file.mtime, lastMod)
    /\ loader' = [loader EXCEPT !.pc = "ticker", !.boot = FALSE, !.modTime = file.mtime]
    /\ cyc' = [cyc EXCEPT !.statM = file.mtime, !.outcome = "unchanged"]
    /\ UNCHANGED <<heap, routes, lastMod, rw, file, lk, prev, proxyVars, poolVars>>
    /\ due' = DueNext

\* a plausible slip: lastMod is set as soon as the file is found newer
StatChangedAdvances ==
    /\ loader.pc = "stat"
    /\ file.state # "missing"
    /\ ModTimeAfter(file.mtime, lastMod)
    /\ loader' = [loader EXCEPT !.pc = "read", !.modTime = file.mtime]
    /\ lastMod' = file.mtime
    /\ cyc' = [cyc EXCEPT !.statM = file.mtime]
    /\ UNCHANGED <<heap, routes, rw, file, lk, prev, proxyVars, poolVars>>
    /\ due' = DueNext

\* the file is newer than lastMod
StatChanged ==
    /\ loader.pc = "stat"
    /\ file.state # "missing"
    /\ ModTimeAfter(file.mtime, lastMod)
    /\ loader' = [loader EXCEPT !.pc = "read", !.modTime = file.mtime]
    /\ cyc' = [cyc EXCEPT !.statM = file.mtime]
    /\ UNCHANGED <<heap, routes, lastMod, rw, file, lk, prev, proxyVars, poolVars>>
    /\ due' = DueNext

\* ioutil.ReadFile fails
ReadFails ==
    /\ loader.pc = "read"
    /\ file.state # "ok"
    /\ Returns("failed", TRUE)
    /\ UNCHANGED <<heap, routes, lastMod, rw, file, lk, prev, proxyVars, poolVars>>
    /\ due' = DueNext

\* ioutil.ReadFile reads what the file holds now
ReadOk ==
    /\ loader.pc = "read"
    /\ file.state = "ok"
    /\ loader' = [loader EXCEPT !.pc = "unmarshal", !.data = file.content]
    /\ cyc' = [cyc EXCEPT !.didRead = TRUE, !.bad = ~WellFormed(file.content)]
    /\ UNCHANGED <<heap, routes, lastMod, rw, file, lk, prev, proxyVars, poolVars>>
    /\ due' = DueNext

\* json.Unmarshal returns an error
UnmarshalFails ==
    /\ loader.pc = "unmarshal"
    /\ UnmarshalError(loader.data)
    /\ Returns("failed", cyc.bad)
    /\ UNCHANGED <<heap, routes, lastMod, rw, file, lk, prev, proxyVars, poolVars>>
    /\ due' = DueNext

\* json.Unmarshal decodes a document that declares routes into a map
UnmarshalRoutes ==
    /\ loader.pc = "unmarshal"
    /\ ~UnmarshalError(loader.data)
    /\ loader.data.kind = "routes"
    /\ LET a == DecodeTarget(heap, routes)
       IN  /\ heap' = Decoded(heap, a, loader.data.table)
           /\ loader' = [loader EXCEPT !.pc = "lock", !.parsed = a]
    /\ cyc' = [cyc EXCEPT !.didParse = TRUE]
    /\ UNCHANGED <<routes, lastMod, rw, file, lk, prev, proxyVars, poolVars>>
    /\ due' = DueNext

\* json.Unmarshal decodes a document that declares no routes (or is not
\* tested for its error): config.Routes stays nil
UnmarshalNoRoutes ==
    /\ loader.pc = "unmarshal"
    /\ ~UnmarshalError(loader.data)
    /\ loader.data.kind # "routes"
    /\ loader' = [loader EXCEPT !.pc = "lock", !.parsed = 0]
    /\ cyc' = [cyc EXCEPT !.didParse = TRUE]
    /\ UNCHANGED <<heap, routes, lastMod, rw, file, lk, prev, proxyVars, poolVars>>
    /\ due' = DueNext

\* routeMutex.Lock() is called: from now on no new reader gets the lock
LockRequest ==
    /\ loader.pc = "lock"
    /\ rw' = [rw EXCEPT !.waiting = TRUE]
    /\ loader' = [loader EXCEPT !.pc = "locking"]
    /\ UNCHANGED <<heap, routes, lastMod, file, lk, cyc, prev, proxyVars, poolVars>>
    /\ due' = DueNext

\* routeMutex.Lock() returns once the readers are gone
LockAcquire ==
    /\ loader.pc = "locking"
    /\ rw.readers = {}
    /\ rw' = [rw EXCEPT !.waiting = FALSE, !.writer = TRUE]
    /\ loader' = [loader EXCEPT !.pc = "publish"]
    /\ UNCHANGED <<heap, routes, lastMod, file, lk, cyc, prev, proxyVars, poolVars>>
    /\ due' = DueNext

\* routes = config.Routes; lastMod = fileInfo.ModTime(); the log line.  The
\* map routes pointed to is garbage from here on.
Publish ==
    /\ loader.pc = "publish"
    /\ routes' = loader.parsed
    /\ lastMod' = loader.modTime
    /\ heap' = [a \in DOMAIN heap |->
                  IF a = routes /\ a # loader.parsed THEN Free ELSE heap[a]]
    /\ loader' = [loader EXCEPT !.pc = "unlock"]
    /\ cyc' = [cyc EXCEPT !.logged = "reloaded"]
    /\ UNCHANGED <<rw, file, lk, prev, proxyVars, poolVars>>
    /\ due' = DueNext

\* the deferred routeMutex.Unlock(); return nil
Unlock ==
    /\ loader.pc = "unlock"
    /\ rw' = [rw EXCEPT !.writer = FALSE]
    /\ Returns("reloaded", cyc.bad)
    /\ UNCHANGED <<heap, routes, lastMod, file, lk, prev, proxyVars, poolVars>>
    /\ due' = DueNext

\* the reloader's ticker fires: the next loadRoutes starts
Tick ==
    /\ loader.pc = "ticker"
    /\ loader' = [loader EXCEPT !.pc = "stat", !.data = NoDocument, !.parsed = 0]
    /\ prev' = [statM |-> cyc.statM, outcome |-> cyc.outcome, didParse |-> cyc.didParse]
    /\ cyc' = StartCycle(FALSE)
    /\ UNCHANGED <<heap, routes, lastMod, rw, file, lk, proxyVars, poolVars>>
    /\ due' = DueNext

\* someone writes, touches, replaces, removes or protects routes.json
FileChange ==
    /\ \E f \in FileStates : f # file /\ file' = f
    /\ cyc' = cyc
    /\ UNCHANGED <<heap, routes, lastMod, rw, loader, lk, prev, proxyVars, poolVars>>
    /\ due' = DueNext

\* a request task calls findRoute(path)
LookupCall(r, paths) ==
    /\ Serving
    /\ lk[r].pc = "idle"
    /\ \E p \in paths : lk' = [lk EXCEPT ![r] = [IdleLookup EXCEPT !.pc = "rlock", !.path = p]]
    /\ UNCHANGED <<heap, routes, lastMod, rw, file, loader, cyc, prev, proxyVars, poolVars>>
    /\ due' = DueNext

\* routeMutex.RLock(): not while a writer holds or waits for the lock
LookupRLock(r) ==
    /\ lk[r].pc = "rlock"
    /\ ~rw.writer /\ ~rw.waiting
    /\ rw' = [rw EXCEPT !.readers = @ \cup {r}]
    /\ lk' = [lk EXCEPT ![r].pc = "load", ![r].locked = ActiveTable]
    /\ UNCHANGED <<heap, routes, lastMod, file, loader, cyc, prev, proxyVars, poolVars>>
    /\ due' = DueNext

\* routes[prefix], first half: the global routes is read
LookupLoad(r) ==
    /\ lk[r].pc = "load"
    /\ lk' = [lk EXCEPT ![r].pc = "index", ![r].m = routes]
    /\ UNCHANGED <<heap, routes, lastMod, rw, file, loader, cyc, prev, proxyVars, poolVars>>
    /\ due' = DueNext

\* routes[prefix], second half: the map is accessed; the results are set
LookupIndex(r) ==
    /\ lk[r].pc = "index"
    /\ lk' = [lk EXCEPT ![r].pc = "runlock",
                        ![r].result = FindRouteIn(TableAt(heap, lk[r].m), lk[r].path)]
    /\ UNCHANGED <<heap, routes, lastMod, rw, file, loader, cyc, prev, proxyVars, poolVars>>
    /\ due' = DueNext

\* the deferred routeMutex.RUnlock(); findRoute returns
LookupReturn(r) ==
    /\ lk[r].pc = "runlock"
    /\ rw' = [rw EXCEPT !.readers = @ \ {r}]
    /\ lk' = [lk EXCEPT ![r].pc = "done"]
    /\ UNCHANGED <<heap, routes, lastMod, file, loader, cyc, prev, proxyVars, poolVars>>
    /\ due' = DueNext

\* the caller has used the results: the request task is over
LookupUsed(r) ==
    /\ lk[r].pc = "done"
    /\ lk' = [lk EXCEPT ![r] = IdleLookup]
    /\ UNCHANGED <<heap, routes, lastMod, rw, file, loader, cyc, prev, proxyVars, poolVars>>
    /\ due' = DueNext

\* the paths request tasks look up while the table reloads
ReloadPaths ==
    { <<"/", "a">>, <<"/", "A", "/", "a">> }

NextRoutes ==
    \/ StatFails
    \/ StatUnchanged
    \/ StatChanged
    \/ ReadFails
    \/ ReadOk
    \/ UnmarshalFails
    \/ UnmarshalRoutes
    \/ UnmarshalNoRoutes
    \/ LockRequest
    \/ LockAcquire
    \/ Publish
    \/ Unlock
    \/ Tick
    \/ FileChange
    \/ \E r \in Readers : LookupCall(r, ReloadPaths)
    \/ \E r \in Readers : LookupRLock(r)
    \/ \E r \in Readers : LookupLoad(r)
    \/ \E r \in Readers : LookupIndex(r)
    \/ \E r \in Readers : LookupReturn(r)
    \/ \E r \in Readers : LookupUsed(r)

SpecRoutes == InitRoutes /\ [][NextRoutes]_vars

\* a step of main's initial load or of the reloader goroutine: the ticker
\* fires every reloadInterval and the goroutine runs loadRoutes to its end
LoaderStep ==
    \/ StatFails
    \/ StatUnchanged
    \/ StatChanged
    \/ ReadFails
    \/ ReadOk
    \/ UnmarshalFails
    \/ UnmarshalRoutes
    \/ UnmarshalNoRoutes
    \/ LockRequest
    \/ LockAcquire
    \/ Publish
    \/ Unlock
    \/ Tick

\* findRoute from its RLock to its map access, in one step: what a call
\* does under the read lock changes nothing the loader reads
FindRouteEnter(r) ==
    /\ Serving
    /\ lk[r].pc = "idle"
    /\ ~rw.writer /\ ~rw.waiting
    /\ rw' = [rw EXCEPT !.readers = @ \cup {r}]
    /\ \E p \in ReloadPaths :
          lk' = [lk EXCEPT ![r] = [IdleLookup EXCEPT
                    !.pc = "runlock", !.path = p, !.locked = ActiveTable, !.m = routes,
                    !.result = FindRouteIn(ActiveTable, p)]]
    /\ UNCHANGED <<heap, routes, lastMod, file, loader, cyc, prev, proxyVars, poolVars>>
    /\ due' = DueNext

\* its deferred RUnlock and its return, in one step
FindRouteLeave(r) ==
    /\ lk[r].pc = "runlock"
    /\ rw' = [rw EXCEPT !.readers = @ \ {r}]
    /\ lk' = [lk EXCEPT ![r] = IdleLookup]
    /\ UNCHANGED <<heap, routes, lastMod, file, loader, cyc, prev, proxyVars, poolVars>>
    /\ due' = DueNext

NextRoutesFair ==
    \/ LoaderStep
    \/ FileChange
    \/ \E r \in Readers : FindRouteEnter(r)
    \/ \E r \in Readers : FindRouteLeave(r)

\* the loader, the file and findRoute calls in coarser steps; the reloader
\* keeps ticking, every goroutine that can run does run, and a findRoute
\* call that holds the read lock gives it back
SpecRoutesFair ==
    /\ InitRoutes
    /\ [][NextRoutesFair]_vars
    /\ WF_vars(LoaderStep)
    /\ \A r \in Readers : WF_vars(FindRouteLeave(r))

(***************************************************************************)
(* Claims about loading and reloading the table.                           *)
(***************************************************************************)
\* the load cycle is over: loadRoutes has returned
CycleEnded ==
    loader.pc \in {"ticker", "fatal"} /\ cyc.outcome # "running"

\* C3: the swap is atomic for lookups.  A findRoute call computes its
\* results from one published table, the one that was active when it got the
\* read lock; as long as it holds the lock that table stays the active one;
\* and no step changes the map that routes points to: a reload puts another
\* map in its place.
C3_AtomicSwap ==
    /\ [](\A r \in Readers :
            /\ lk[r].pc \in {"load", "index", "runlock"} => ActiveTable = lk[r].locked
            /\ lk[r].pc = "index" => TableAt(heap, lk[r].m) = lk[r].locked
            /\ lk[r].pc \in {"runlock", "done"} =>
                   lk[r].result = FindRouteIn(lk[r].locked, lk[r].path))
    /\ [][routes # 0 /\ routes' = routes => heap'[routes] = heap[routes]]_vars

\* a lookup has its result and still holds the read lock while loadRoutes,
\* with another table decoded, waits for the write lock
C3_Witness ==
    /\ \E r \in Readers : lk[r].pc = "runlock" /\ lk[r].result.found
    /\ loader.pc = "locking"
    /\ loader.parsed # 0
    /\ TableAt(heap, loader.parsed) # ActiveTable
    /\ ActiveTable # NilMap

\* C4: a load cycle in which the file could not be stat'ed, could not be
\* read or did not parse returns an error and leaves the active table and
\* lastMod as they were, so that findRoute answers every path as before; the
\* reloader logs the error and waits for the next tick.
C4_FailedReloadKeepsTable ==
    (cyc.bad /\ CycleEnded) =>
        /\ cyc.outcome = "failed"
        /\ ActiveTable = cyc.table0
        /\ lastMod = cyc.lastMod0
        /\ \A p \in ReloadPaths : FindRouteIn(ActiveTable, p) = FindRouteIn(cyc.table0, p)
        /\ ~cyc.boot => loader.pc = "ticker" /\ cyc.logged = "reload failed"

\* a reload read a document that does not parse while a table was active;
\* the reloader is back at its ticker
C4_Witness ==
    /\ ~cyc.boot
    /\ cyc.bad
    /\ cyc.didRead
    /\ cyc.outcome = "failed"
    /\ loader.pc = "ticker"
    /\ ActiveTable # NilMap

\* the successful parses of the last cycle and the one before
ParsesOfTwoCycles ==
    (IF prev.didParse THEN 1 ELSE 0) + (IF cyc.didParse THEN 1 ELSE 0)

\* both cycles saw the file with the same modification time
SameModTimeTwice ==
    /\ CycleEnded
    /\ prev.outcome # "none"
    /\ cyc.statM # 0
    /\ cyc.statM = prev.statM

\* C6, as claimed: any two consecutive cycles that see the same modification
\* time hold exactly one successful parse.
C6_TwoCyclesOneParse ==
    SameModTimeTwice => ParsesOfTwoCycles = 1

\* C6: a cycle that finds the file not newer than lastMod reads nothing,
\* parses nothing and leaves the table and lastMod alone; so of two
\* consecutive cycles that see the same modification time, the first of
\* which loaded the table, only the first parses.
C6_UnchangedIsNoOp ==
    /\ (cyc.statM # 0 /\ cyc.statM <= cyc.lastMod0) =>
            /\ ~cyc.didRead
            /\ ~cyc.didParse
            /\ cyc.outcome = "unchanged"
            /\ loader.pc = "ticker"
            /\ ActiveTable = cyc.table0
            /\ lastMod = cyc.lastMod0
    /\ (SameModTimeTwice /\ prev.outcome = "reloaded") =>
            /\ cyc.outcome = "unchanged"
            /\ ParsesOfTwoCycles = 1

\* a cycle loaded a table and the next one, seeing the same modification
\* time, returned without reading
C6_Witness ==
    /\ SameModTimeTwice
    /\ prev.outcome = "reloaded"
    /\ cyc.outcome = "unchanged"
    /\ ActiveTable # NilMap

\* C18: when the initial load fails the process ends: the reloader was
\* never started (no tick ever came), no findRoute call was made, and from
\* then on the process takes no step; and a findRoute call runs only after
\* a load has completed, which shows in lastMod.
C18_FatalInitialLoad ==
    /\ [](loader.pc = "fatal" =>
            /\ cyc.boot /\ cyc.outcome = "failed"
            /\ routes = 0 /\ lastMod = 0)
    /\ [](loader.boot => prev = NoPrev /\ \A r \in Readers : lk[r] = IdleLookup)
    /\ []((\E r \in Readers : lk[r].pc # "idle") => ~loader.boot /\ lastMod > 0)
    /\ [][loader.pc = "fatal" =>
            UNCHANGED <<heap, routes, lastMod, rw, loader, lk, cyc, prev>>]_vars
    /\ [][~loader.boot => ~loader'.boot]_vars

\* the initial load read a document that does not parse: the process ended
C18_Witness ==
    /\ loader.pc = "fatal"
    /\ cyc.boot
    /\ cyc.didRead
    /\ cyc.bad
    /\ file.state = "ok"

\* a failed load leaves lastMod alone, and the cycle after a reload that
\* failed past its Stat does not take the same file for unchanged; a
\* reloader that logged a failure gets to its next Stat
FailedReloadIsRetried ==
    /\ []((CycleEnded /\ cyc.outcome = "failed") => lastMod = cyc.lastMod0)
    /\ []((CycleEnded /\ prev.outcome = "failed" /\ prev.statM # 0
              /\ cyc.statM = prev.statM) => cyc.outcome # "unchanged")
    /\ ((loader.pc = "ticker" /\ cyc.outcome = "failed") ~> loader.pc = "stat")

\* the active table is the routes mapping of routes.json
SourceIsActive ==
    file \in StableFiles /\ ActiveTable = file.content.table

\* C25, as claimed: with the reloader ticking, once routes.json is no longer
\* modified and has been, since its last modification, readable and
\* well-formed with a modification time later than lastMod, the active
\* table becomes its routes mapping and stays so; a failed reload is tried
\* again on the next tick.
C25_StableSourceIsLoaded ==
    /\ (<>[][file' = file]_vars /\ <>[](due.claimed)) => <>[]SourceIsActive
    /\ FailedReloadIsRetried

\* C25, amended: the same, for a modification time that is also later than
\* the one a load cycle in progress has taken from Stat.
C25_StableNewerSourceIsLoaded ==
    /\ (<>[][file' = file]_vars /\ <>[](due.newer)) => <>[]SourceIsActive
    /\ FailedReloadIsRetried

\* a reload failed, and the next one loaded the file as it is now
C25_Witness ==
    /\ Serving
    /\ due.newer
    /\ loader.pc = "ticker"
    /\ prev.outcome = "failed"
    /\ prev.statM # 0
    /\ cyc.outcome = "reloaded"
    /\ file.state = "ok"
    /\ file.content.kind = "routes"
    /\ lastMod = file.mtime
    /\ ActiveTable = file.content.table
    /\ ActiveTable # cyc.table0

\* C26, as claimed: a reload that read a document which is not a
\* well-formed document with a routes mapping (text that does not parse, or
\* a document without the mapping) returns an error and applies nothing:
\* the active table and lastMod are what they were.
C26_MalformedNotApplied ==
    (CycleEnded /\ ~cyc.boot /\ cyc.didRead /\ loader.data.kind # "routes") =>
        /\ cyc.outcome = "failed"
        /\ ActiveTable = cyc.table0
        /\ lastMod = cyc.lastMod0

(***************************************************************************)
(* SpecPool, continued: its steps.                                         *)
(***************************************************************************)
InitPool ==
    /\ FreshPool
    /\ HandlerIdle
    /\ StaticTable(NilMap)

\* a request's copy of the response body takes a buffer
Get ==
    /\ held < MaxHeld
    /\ \E g \in PoolGet(bp) :
          /\ bp' = g.b
          /\ hist' = Record("Get", g.buf)
    /\ held' = held + 1
    /\ fired' = fired
    /\ stale' = fired
    /\ UNCHANGED <<tableVars, proxyVars>>

\* the copy ends (or fails) and hands its buffer back
Put ==
    /\ held > 0
    /\ \E buf \in PutBuffers :
          /\ bp' = PoolPut(bp, buf)
          /\ hist' = Record("Put", buf)
    /\ held' = held - 1
    /\ fired' = fired
    /\ stale' = stale
    /\ UNCHANGED <<tableVars, proxyVars>>

\* the idle timer expires: the runtime starts cleanup in its own goroutine
TimerFire ==
    /\ bp.timer = "pending"
    /\ fired < MaxFired
    /\ bp' = [bp EXCEPT !.timer = "stopped"]
    /\ fired' = fired + 1
    /\ stale' = stale
    /\ hist' = Record("Fire", NoBuffer)
    /\ held' = held
    /\ UNCHANGED <<tableVars, proxyVars>>

\* a started cleanup gets b.mu and runs: one that a Get has overtaken
\* (old), or one that started after the last Get
Cleanup ==
    /\ fired > 0
    /\ bp' = PoolCleanup(bp).b
    /\ fired' = fired - 1
    /\ \E old \in BOOLEAN :
          /\ IF old THEN stale > 0 ELSE fired > stale
          /\ stale' = IF old THEN stale - 1 ELSE stale
          /\ hist' = [Record("Cleanup", NoBuffer) EXCEPT
                        !.drained = PoolCleanup(bp).drained,
                        !.allocated = PoolCleanup(bp).allocated,
                        !.stale = old]
    /\ held' = held
    /\ UNCHANGED <<tableVars, proxyVars>>

\* the garbage collector empties the sync.Pool, wholly or in part
PoolGC ==
    /\ \E k \in 1..Len(bp.pool) :
          bp' = [bp EXCEPT !.pool = SubSeq(@, k + 1, Len(@))]
    /\ hist' = Record("GC", NoBuffer)
    /\ UNCHANGED <<held, fired, stale, tableVars, proxyVars>>

NextPool ==
    \/ Get
    \/ Put
    \/ TimerFire
    \/ Cleanup
    \/ PoolGC

SpecPool == InitPool /\ [][NextPool]_vars

(***************************************************************************)
(* Properties of the buffer pool.                                          *)
(***************************************************************************)
\* the last two pool operations were a Get and then a Put of a buffer of
\* unmodified capacity, with no other pool operation, timer callback or
\* garbage collection of the pool between them
GetThenPut ==
    /\ hist.op = "Put"
    /\ hist.prevOp = "Get"
    /\ hist.buf.cap = bp.size

\* C9, as claimed: Get() followed by Put() of the same buffer with
\* unmodified capacity returns the pool to the pooled-buffer count it had
\* before the Get(), in every state of the pool.
C9_SameCountAfterGetPut ==
    GetThenPut => Len(bp.pool) = hist.prevBefore

\* C9, amended: Get() directly followed by Put() of the same buffer with
\* unmodified capacity returns the pool to the pooled-buffer count it had
\* before the Get() when the pool held a buffer then; when it held none,
\* Get allocated the buffer and the pool holds one buffer more, that one.
C9_GetPutCount ==
    GetThenPut =>
        Len(bp.pool) = IF hist.prevBefore = 0 THEN 1 ELSE hist.prevBefore

\* both cases of C9 happen: a Get and Put on a pool that held buffers
C9_Witness ==
    /\ GetThenPut
    /\ hist.prevBefore = 2
    /\ Len(bp.pool) = 2

\* C10: a Put of a buffer whose capacity differs from size leaves the
\* pooled-buffer count as it was, still counts active down by one and still
\* (re)starts the idle timer when active reaches zero (and leaves the timer
\* alone otherwise); every pooled buffer has capacity and length size.
C10_MismatchedPut ==
    /\ (hist.op = "Put" /\ hist.buf.cap # bp.size) =>
          /\ Len(bp.pool) = hist.before
          /\ bp.active = hist.activeBefore - 1
          /\ bp.active = 0 => bp.timer = "pending"
          /\ bp.active # 0 => bp.timer = hist.timerBefore
    /\ \A i \in 1..Len(bp.pool) :
          bp.pool[i].cap = bp.size /\ bp.pool[i].len = bp.size

\* a too-large buffer is put back as the last one out, with buffers pooled
C10_Witness ==
    /\ hist.op = "Put"
    /\ hist.buf.cap > bp.size
    /\ hist.before >= 1
    /\ bp.active = 0
    /\ bp.timer = "pending"
    /\ hist.timerBefore = "stopped"

\* C11: with every Put handing back a buffer that a Get gave out, active is
\* the number of buffers checked out and never negative; Get always has an
\* outcome (it waits for no buffer), and every outcome is a buffer of
\* length and capacity size, fresh exactly when the sync.Pool holds none.
C11_ActiveCountsCheckedOut ==
    /\ bp.active = held
    /\ bp.active >= 0
    /\ PoolGet(bp) # {}
    /\ \A g \in PoolGet(bp) :
          /\ g.buf = Buffer(bp.size, bp.size)
          /\ g.fresh <=> Len(bp.pool) = 0
    /\ hist.op = "Get" => hist.buf = Buffer(bp.size, bp.size)

\* a second Get, with one buffer out and the pool empty, got a fresh buffer
C11_Witness ==
    /\ hist.op = "Get"
    /\ hist.before = 0
    /\ hist.activeBefore = 1
    /\ hist.prevOp = "Put"
    /\ held = 2
    /\ bp.active = 2

\* C12: cleanup, when it runs under b.mu, drains only if active is zero: with
\* a buffer checked out it leaves the pooled buffers, active and the timer
\* as they were; when it drains it takes at most 10 pooled buffers out and
\* leaves active and the timer alone.
C12_CleanupOnlyWhenIdle ==
    hist.op = "Cleanup" =>
        /\ bp.active = hist.activeBefore
        /\ bp.timer = hist.timerBefore
        /\ hist.activeBefore > 0 => Len(bp.pool) = hist.before
        /\ Len(bp.pool) <= hist.before
        /\ hist.before - Len(bp.pool) <= 10

\* a cleanup met 11 pooled buffers, none checked out, and left one
C12_Witness ==
    /\ hist.op = "Cleanup"
    /\ hist.activeBefore = 0
    /\ hist.before = 11
    /\ Len(bp.pool) = 1

\* C21: the idle timer is pending only while active is 0.  It is stopped
\* before the first Get; every Get leaves it stopped; a Put leaves it
\* pending exactly when it brought active down to zero.
C21_TimerOnlyWhenIdle ==
    /\ bp.timer = "pending" => bp.active = 0
    /\ hist.op = "none" => bp.timer = "stopped"
    /\ hist.op = "Get" => bp.timer = "stopped" /\ bp.active = hist.activeBefore + 1
    /\ hist.op = "Put" => (bp.timer = "pending" <=> bp.active = 0)

\* a Get met the timer pending and stopped it
C21_Witness ==
    /\ hist.op = "Get"
    /\ hist.timerBefore = "pending"
    /\ bp.timer = "stopped"
    /\ bp.active = 1

\* C22, as claimed: a cleanup that drains allocates no buffer: it takes out
\* what the sync.Pool holds, ten at most, and stops when it is empty.
C22_DrainAllocatesNothing ==
    (hist.op = "Cleanup" /\ hist.drained) =>
        /\ hist.allocated = 0
        /\ Len(bp.pool) = IF hist.before > 10 THEN hist.before - 10 ELSE 0

\* C23, as claimed: a timer callback that a Get has overtaken (the timer
\* was armed, and a Get came before the callback ran under b.mu) drains
\* nothing.
C23_OvertakenNeverDrains ==
    (hist.op = "Cleanup" /\ hist.stale) => ~hist.drained

(***************************************************************************)
(* Spec: one request through the handler of main.go.  The handler tests    *)
(* the inbound request for the invalid-route marker, then calls            *)
(* proxy.ServeHTTP; httputil.ReverseProxy clones the request, runs the     *)
(* Director on the clone, hands the clone to the Transport, runs           *)
(* ModifyResponse on the response and copies the body through a pooled     *)
(* buffer; back in the handler, the request is logged.                     *)
(***************************************************************************)
\* the route tables the handler is run with
ProxyTables ==
    { NilMap,
      (<<"a">> :> <<"b", "/", "a">>) @@ (<<"A">> :> <<"/", "b", "/", "/">>),
      (EmptyStr :> <<"b">>) @@ (<<".">> :> <<"a">>) }

\* request paths: the path of an origin-form request target starts with "/"
RootedPaths ==
    {p \in StringsUpTo(MaxPathLen) : p # EmptyStr /\ p[1] = "/"}

\* the headers a client sends besides the marker
ClientHeaders ==
    { NoHeaders,
      [x \in {"User-Agent", "Referer", "Accept-Encoding", "If-Modified-Since", "Cookie"} |->
          CASE x = "User-Agent" -> "curl/8.0"
            [] x = "Referer" -> "https://client.example/"
            [] x = "Accept-Encoding" -> "gzip"
            [] x = "If-Modified-Since" -> "Sat, 01 Jan 2000 00:00:00 GMT"
            [] x = "Cookie" -> "sid=1"] }

\* the inbound header maps: a client may send X-Proxy-Invalid itself
InboundHeaders ==
    ClientHeaders
    \cup {HeaderSet(h, "X-Proxy-Invalid", v) : h \in ClientHeaders, v \in {"1", "0"}}

\* the requests the server hands to the handler: origin-form ("GET /a/b"),
\* whose URL holds only the path, and absolute-form ("GET http://host/a/b"),
\* whose URL holds the scheme and host the client wrote
InboundRequests ==
    {Request("", "", "proxy.example:8443", p, h) :
        p \in RootedPaths, h \in InboundHeaders}
    \cup {Request("http", "other.example", "other.example", p, h) :
        p \in RootedPaths \cup {EmptyStr}, h \in InboundHeaders}

Response(code, header, length, encoding) ==
    [StatusCode |-> code, Header |-> header, ContentLength |-> length,
     TransferEncoding |-> encoding]

\* upstream responses: with a declared length or chunked (length -1)
UpstreamResponses ==
    { Response(200, ("Content-Type" :> "text/plain") @@ ("Content-Length" :> "500000"),
               500000, <<>>),
      Response(200, ("Content-Type" :> "video/mp4") @@ ("Content-Length" :> "2097152")
                    @@ ("Access-Control-Allow-Origin" :> "https://other.example"),
               2097152, <<>>),
      Response(200, ("Content-Type" :> "text/plain")
                    @@ ("Access-Control-Allow-Origin" :> "*"),
               -1, <<"chunked">>) }

\* a plausible slip: the header is added only when the upstream sent none
ModifyResponseKeepsUpstream(res) ==
    IF "Access-Control-Allow-Origin" \in DOMAIN res.Header THEN res
    ELSE [res EXCEPT !.Header = HeaderSet(@, "Access-Control-Allow-Origin", "*")]

\* proxy.ModifyResponse: the response after shaping
ModifyResponse(res) ==
    [res EXCEPT !.Header = HeaderSet(@, "Access-Control-Allow-Origin", "*")]

\* proxy.ModifyResponse's error: its one return statement returns nil
ModifyResponseError(res) ==
    FALSE

Init ==
    /\ HandlerIdle
    /\ FreshPool
    /\ \E t \in ProxyTables : StaticTable(t)

\* the server hands a request to the handler
Receive ==
    /\ pc = "idle"
    /\ \E req \in InboundRequests : inreq' = req
    /\ pc' = "handler"
    /\ UNCHANGED <<outreq, resp, upres, outcome, serveCalled, tripCalled, dialed, logs,
                   networkDataCount, sh, declared, tableVars, poolVars>>

\* handler: the marker is on the inbound request: log, http.NotFound, return
HandlerNotFound ==
    /\ pc = "handler"
    /\ HandlerRejects(inreq)
    /\ logs' = logs \cup {"404"}
    /\ outcome' = "notfound"
    /\ pc' = "done"
    /\ UNCHANGED <<inreq, outreq, resp, upres, serveCalled, tripCalled, dialed,
                   networkDataCount, sh, declared, tableVars, poolVars>>

\* handler: no marker: proxy.ServeHTTP(w, r); ReverseProxy clones r
HandlerServe ==
    /\ pc = "handler"
    /\ ~HandlerRejects(inreq)
    /\ serveCalled' = TRUE
    /\ outreq' = inreq
    /\ pc' = "serve"
    /\ UNCHANGED <<inreq, resp, upres, outcome, tripCalled, dialed, logs,
                   networkDataCount, sh, declared, tableVars, poolVars>>

\* ReverseProxy runs the Director on the clone
RunDirector ==
    /\ pc = "serve"
    /\ outreq' = Director(ActiveTable, outreq)
    /\ logs' = IF FindRouteIn(ActiveTable, outreq.URLPath).found
               THEN logs \cup {"forward"} ELSE logs
    /\ pc' = "directed"
    /\ UNCHANGED <<inreq, resp, upres, outcome, serveCalled, tripCalled, dialed,
                   networkDataCount, sh, declared, tableVars, poolVars>>

\* between the Director and RoundTrip, ReverseProxy itself adds the
\* client's address as X-Forwarded-For and an empty User-Agent when the
\* clone has none (none of the inbound headers modelled is hop-by-hop)
ForwardedHeaders(h) ==
    LET withUA == IF "User-Agent" \in DOMAIN h THEN h ELSE HeaderSet(h, "User-Agent", "")
    IN  HeaderSet(withUA, "X-Forwarded-For", "client-address")

\* RoundTrip refuses the clone's URL: ReverseProxy's error handler answers 502
RoundTripRefused ==
    /\ pc = "directed"
    /\ TransportRefuses(outreq)
    /\ outreq' = [outreq EXCEPT !.Header = ForwardedHeaders(@)]
    /\ tripCalled' = TRUE
    /\ outcome' = "badgateway"
    /\ pc' = "served"
    /\ UNCHANGED <<inreq, resp, upres, serveCalled, dialed, logs,
                   networkDataCount, sh, declared, tableVars, poolVars>>

\* RoundTrip connects to the host the clone's URL names and fails there
RoundTripError ==
    /\ pc = "directed"
    /\ ~TransportRefuses(outreq)
    /\ outreq' = [outreq EXCEPT !.Header = ForwardedHeaders(@)]
    /\ tripCalled' = TRUE
    /\ dialed' = outreq.URLHost
    /\ outcome' = "badgateway"
    /\ pc' = "served"
    /\ UNCHANGED <<inreq, resp, upres, serveCalled, logs,
                   networkDataCount, sh, declared, tableVars, poolVars>>

\* RoundTrip connects to the host the clone's URL names and gets a response
RoundTripResponse ==
    /\ pc = "directed"
    /\ ~TransportRefuses(outreq)
    /\ outreq' = [outreq EXCEPT !.Header = ForwardedHeaders(@)]
    /\ tripCalled' = TRUE
    /\ dialed' = outreq.URLHost
    /\ \E res \in UpstreamResponses : resp' = res /\ upres' = res
    /\ pc' = "responded"
    /\ UNCHANGED <<inreq, outcome, serveCalled, logs,
                   networkDataCount, sh, declared, tableVars, poolVars>>

\* ReverseProxy runs ModifyResponse: shape, log, add the declared size to
\* the running total; an error from it would make ReverseProxy answer 502
ShapeResponse ==
    /\ pc = "responded"
    /\ resp' = ModifyResponse(resp)
    /\ logs' = logs \cup {"response"}
    /\ networkDataCount' = networkDataCount + resp.ContentLength
    /\ pc' = IF ModifyResponseError(resp) THEN "served" ELSE "shaped"
    /\ outcome' = IF ModifyResponseError(resp) THEN "badgateway" ELSE outcome
    /\ UNCHANGED <<inreq, outreq, upres, serveCalled, tripCalled, dialed,
                   sh, declared, tableVars, poolVars>>

\* ReverseProxy writes the header and starts copyResponse, which takes a
\* buffer from proxy.BufferPool
CopyBegin ==
    /\ pc = "shaped"
    /\ outcome' = "proxied"
    /\ \E g \in PoolGet(bp) :
          /\ bp' = g.b
          /\ hist' = Record("Get", g.buf)
    /\ held' = held + 1
    /\ pc' = "copying"
    /\ UNCHANGED <<inreq, outreq, resp, upres, serveCalled, tripCalled, dialed, logs,
                   networkDataCount, fired, sh, declared, tableVars>>
    /\ stale' = fired

\* the body is copied: the deferred Put hands the buffer back
CopyDone ==
    /\ pc = "copying"
    /\ bp' = PoolPut(bp, NewBuffer(bp.size))
    /\ hist' = Record("Put", NewBuffer(bp.size))
    /\ held' = held - 1
    /\ pc' = "served"
    /\ UNCHANGED <<inreq, outreq, resp, upres, outcome, serveCalled, tripCalled, dialed,
                   logs, networkDataCount, fired, stale, sh, declared, tableVars>>

\* a plausible slip: the buffer is handed back only after a complete copy
CopyFailedLeaks ==
    /\ pc = "copying"
    /\ outcome' = "aborted"
    /\ pc' = "done"
    /\ UNCHANGED <<inreq, outreq, resp, upres, serveCalled, tripCalled, dialed,
                   logs, networkDataCount, sh, declared, tableVars, poolVars>>

\* the copy fails (the client is gone, the upstream body breaks off): the
\* deferred Put hands the buffer back and ReverseProxy panics with
\* http.ErrAbortHandler, which unwinds the handler
CopyFailed ==
    /\ pc = "copying"
    /\ bp' = PoolPut(bp, NewBuffer(bp.size))
    /\ hist' = Record("Put", NewBuffer(bp.size))
    /\ held' = held - 1
    /\ outcome' = "aborted"
    /\ pc' = "done"
    /\ UNCHANGED <<inreq, outreq, resp, upres, serveCalled, tripCalled, dialed,
                   logs, networkDataCount, fired, stale, sh, declared, tableVars>>

\* handler: proxy.ServeHTTP returned: the request is logged
HandlerLog ==
    /\ pc = "served"
    /\ logs' = logs \cup {"request"}
    /\ pc' = "done"
    /\ UNCHANGED <<inreq, outreq, resp, upres, outcome, serveCalled, tripCalled, dialed,
                   networkDataCount, sh, declared, tableVars, poolVars>>

Next ==
    \/ Receive
    \/ HandlerNotFound
    \/ HandlerServe
    \/ RunDirector
    \/ RoundTripRefused
    \/ RoundTripError
    \/ RoundTripResponse
    \/ ShapeResponse
    \/ CopyBegin
    \/ CopyDone
    \/ CopyFailed
    \/ HandlerLog

Spec == Init /\ [][Next]_vars

(***************************************************************************)
(* Properties of the handler and the Director.  The first segment and the  *)
(* remainder of a path are stated here apart from findRoute's code: the    *)
(* path without its leading "/", up to its next "/", and what follows      *)
(* that "/".                                                               *)
(***************************************************************************)
\* p without the "/" it starts with
Unrooted(p) ==
    IF p # EmptyStr /\ p[1] = "/" THEN Tail(p) ELSE p

\* the length of the first segment of p
FirstSegmentLen(p) ==
    LET q == Unrooted(p)
    IN  CHOOSE k \in 0..Len(q) :
            /\ \A i \in 1..k : q[i] # "/"
            /\ k = Len(q) \/ q[k + 1] = "/"

FirstSegment(p) ==
    SubSeq(Unrooted(p), 1, FirstSegmentLen(p))

\* everything after the "/" that ends the first segment, empty if none
Remainder(p) ==
    SubSeq(Unrooted(p), FirstSegmentLen(p) + 2, Len(Unrooted(p)))

\* the request's first segment is a key of the active table
Matched ==
    FirstSegment(inreq.URLPath) \in DOMAIN ActiveTable

\* C1, as claimed: a request whose first path segment is not a key of the
\* active table never enters proxy.ServeHTTP nor the transport, and is
\* answered 404.
C1_UnmatchedNotFound ==
    (pc # "idle" /\ ~Matched) =>
        /\ ~serveCalled
        /\ ~tripCalled
        /\ pc = "done" => outcome = "notfound"

\* C2, as claimed: a request is answered 404 only if its first segment is
\* not a key of the active table, whatever its headers, and every request
\* whose first segment is a key is dispatched to the upstream origin.
C2_OnlyUnmatchedRejected ==
    /\ outcome = "notfound" => ~Matched
    /\ (pc = "done" /\ Matched) => (tripCalled /\ dialed = target.Host)

\* the non-empty segments of a path, in order
RECURSIVE Segments(_)
Segments(s) ==
    IF s = EmptyStr THEN <<>>
    ELSE LET k == FirstSegmentLen(s)
             q == Unrooted(s)
             rest == Segments(SubSeq(q, k + 1, Len(q)))
         IN  IF k = 0 THEN rest ELSE <<SubSeq(q, 1, k)>> \o rest

\* no segment of s is "." or ".."
DotFree(s) ==
    \A i \in 1..Len(Segments(s)) : Segments(s)[i] \notin {<<".">>, <<".", ".">>}

\* path is "/", target and remainder joined, without duplicate or trailing
\* slashes
NormalizedJoin(path, targetSegment, remainder) ==
    /\ path # EmptyStr /\ path[1] = "/"
    /\ \A i \in 1..(Len(path) - 1) : ~(path[i] = "/" /\ path[i + 1] = "/")
    /\ Len(path) > 1 => path[Len(path)] # "/"
    /\ (DotFree(targetSegment) /\ DotFree(remainder)) =>
          Segments(path) = Segments(targetSegment) \o Segments(remainder)

\* the README's table and the path of the specification's example
ExampleTable ==
    <<"m", "e", "d", "i", "a">> :> <<"c", "d", "n", "/", "m", "e", "d", "i", "a">>

ExamplePath ==
    <<"/", "m", "e", "d", "i", "a", "/", "v", "i", "d", "e", "o", ".", "m", "p", "4">>

ExampleUpstreamPath ==
    <<"/", "c", "d", "n", "/", "m", "e", "d", "i", "a", "/",
      "v", "i", "d", "e", "o", ".", "m", "p", "4">>

\* C7: for a matched request the Director sets scheme and host to the fixed
\* origin, the path to the normalized join of "/", the target segment and
\* the remainder, every fixed header to its configured value, and removes
\* Accept-Encoding and If-Modified-Since; /media/video.mp4 under
\* {"media": "cdn/media"} becomes /cdn/media/video.mp4.
C7_DirectorRewrites ==
    /\ (pc = "directed" /\ Matched) =>
          /\ outreq.URLScheme = "https"
          /\ outreq.URLHost = "www.xxx.com"
          /\ outreq.Host = "www.xxx.com"
          /\ NormalizedJoin(outreq.URLPath,
                            ActiveTable[FirstSegment(inreq.URLPath)],
                            Remainder(inreq.URLPath))
          /\ \A k \in {"Host", "User-Agent", "Referer"} :
                k \in DOMAIN outreq.Header /\ outreq.Header[k] = fixedHeaders[k]
          /\ "Accept-Encoding" \notin DOMAIN outreq.Header
          /\ "If-Modified-Since" \notin DOMAIN outreq.Header
    /\ Director(ExampleTable,
                Request("", "", "proxy.example:8443", ExamplePath, NoHeaders)).URLPath
          = ExampleUpstreamPath

\* a matched request with a doubled and a trailing slash and with the two
\* headers to remove has been rewritten
C7_Witness ==
    /\ pc = "directed"
    /\ inreq.URLPath = <<"/", "A", "/", "a", "/">>
    /\ Matched
    /\ ActiveTable[<<"A">>] = <<"/", "b", "/", "/">>
    /\ {"Accept-Encoding", "If-Modified-Since"} \subseteq DOMAIN inreq.Header
    /\ outreq.URLPath = <<"/", "b", "/", "a">>

\* the segments of path begin with the segments of targetSegment: path is
\* /targetSegment or lies below it
Under(path, targetSegment) ==
    LET ps == Segments(path)
        ts == Segments(targetSegment)
    IN  /\ Len(ps) >= Len(ts)
        /\ SubSeq(ps, 1, Len(ts)) = ts

\* C24, as claimed: for every matched request, whatever its remainder, the
\* upstream path the Director writes is /targetSegment or lies below it.
C24_UpstreamUnderTarget ==
    (pc = "directed" /\ Matched) =>
        Under(outreq.URLPath, ActiveTable[FirstSegment(inreq.URLPath)])

\* C8: for an unmatched request the Director only sets the marker: URL
\* scheme, URL host, Host, path and every other header are as they came.
C8_UnmatchedOnlyMarked ==
    (pc = "directed" /\ ~Matched) =>
        /\ outreq.URLScheme = inreq.URLScheme
        /\ outreq.URLHost = inreq.URLHost
        /\ outreq.Host = inreq.Host
        /\ outreq.URLPath = inreq.URLPath
        /\ outreq.Header["X-Proxy-Invalid"] = "1"
        /\ DOMAIN outreq.Header = (DOMAIN inreq.Header) \cup {"X-Proxy-Invalid"}
        /\ \A k \in (DOMAIN inreq.Header) \ {"X-Proxy-Invalid"} :
              outreq.Header[k] = inreq.Header[k]

\* an unmatched request that came with headers has been through the Director
C8_Witness ==
    /\ pc = "directed"
    /\ ~Matched
    /\ "Accept-Encoding" \in DOMAIN inreq.Header
    /\ inreq.URLScheme = "http"
    /\ "X-Proxy-Invalid" \notin DOMAIN inreq.Header
    /\ outreq.Header["X-Proxy-Invalid"] = "1"


(***************************************************************************)
(* Claims about the shaping of responses in main.go.                       *)
(***************************************************************************)
\* ModifyResponse has run on the upstream response of this request
Shaped ==
    upres # NoResponse /\ pc # "responded"

\* C13: every response ModifyResponse has processed carries
\* Access-Control-Allow-Origin with the value "*" and nothing else, whatever
\* the upstream sent for it; ModifyResponse returns no error, so that no
\* response from the upstream ends as a 502 of the proxy.
C13_CorsAlways ==
    Shaped =>
        /\ "Access-Control-Allow-Origin" \in DOMAIN resp.Header
        /\ resp.Header["Access-Control-Allow-Origin"] = "*"
        /\ ~ModifyResponseError(upres)
        /\ outcome # "badgateway"

\* a response that came with another origin allowed has been shaped
C13_Witness ==
    /\ Shaped
    /\ "Access-Control-Allow-Origin" \in DOMAIN upres.Header
    /\ upres.Header["Access-Control-Allow-Origin"] = "https://other.example"
    /\ resp.Header["Access-Control-Allow-Origin"] = "*"

\* C16, as claimed: the record at the pipeline boundary (method, path,
\* caller address, elapsed time) is written for every request, whatever its
\* outcome.
C16_BoundaryLogAlways ==
    pc = "done" => "request" \in logs

\* C17: the buffer taken for copying a response body is handed back once on
\* every way out of the request: the copy that ends, the copy that fails on
\* the client's or the upstream's side, and the upstream error, for which
\* none is taken.  Only while the copy runs is a buffer out; with no request
\* in flight active is 0.
C17_BufferReleased ==
    /\ bp.active = held
    /\ bp.active = IF pc = "copying" THEN 1 ELSE 0
    /\ (pc \in {"served", "done"} /\ outcome \in {"proxied", "aborted"}) =>
            /\ hist.op = "Put"
            /\ hist.prevOp = "Get"
            /\ Len(bp.pool) = 1

\* a copy failed, the handler was unwound, and the buffer is back in the pool
C17_Witness ==
    /\ pc = "done"
    /\ outcome = "aborted"
    /\ hist.op = "Put"
    /\ bp.active = 0
    /\ Len(bp.pool) = 1

(***************************************************************************)
(* SpecShape: the ModifyResponse of the variants that turn large and media *)
(* responses into chunked ones (part_001, part_002), on every response of  *)
(* ShaperResponses.                                                        *)
(***************************************************************************)
\* resp.ContentLength >= 1024*1024
chunkedThreshold == 1024 * 1024

\* isChunked(encodings)
isChunked(encodings) ==
    \E i \in 1..Len(encodings) : encodings[i] = "chunked"

\* isVideo: the Content-Type value is compared as it stands
isVideo(contentType) ==
    \/ contentType = "video/mp4"
    \/ contentType = "video/webm"
    \/ contentType = "application/octet-stream"

\* a plausible slip: the two conditions are joined by && instead of ||
ModifyResponseChunkedBoth(res) ==
    LET contentType == HeaderGet(res.Header, "Content-Type")
        chunk == /\ isVideo(contentType) /\ res.ContentLength >= chunkedThreshold
                 /\ ~isChunked(res.TransferEncoding)
        sized == IF chunk
                 THEN [res EXCEPT !.Header = HeaderDel(@, "Content-Length"),
                                  !.TransferEncoding = <<"chunked">>]
                 ELSE res
    IN  [sized EXCEPT !.Header = HeaderSet(@, "Access-Control-Allow-Origin", "*")]

\* proxy.ModifyResponse of the variant: the response after shaping
ModifyResponseChunked(res) ==
    LET contentType == HeaderGet(res.Header, "Content-Type")
        chunk == /\ isVideo(contentType) \/ res.ContentLength >= chunkedThreshold
                 /\ ~isChunked(res.TransferEncoding)
        sized == IF chunk
                 THEN [res EXCEPT !.Header = HeaderDel(@, "Content-Length"),
                                  !.TransferEncoding = <<"chunked">>]
                 ELSE res
    IN  [sized EXCEPT !.Header = HeaderSet(@, "Access-Control-Allow-Origin", "*")]

\* the Content-Type values of the responses, "" for none
ShaperContentTypes ==
    {"", "video/mp4", "video/webm", "application/octet-stream", "text/plain",
     "video/mp4; codecs=avc1", "application/json"}

\* the declared lengths of the responses with a Content-Length
ShaperLengths ==
    {0, 500000, 1048575, 1048576, 2097152}

\* the Content-Length header of a declared length
LengthText(n) ==
    CASE n = 0 -> "0"
      [] n = 500000 -> "500000"
      [] n = 1048575 -> "1048575"
      [] n = 1048576 -> "1048576"
      [] n = 2097152 -> "2097152"

\* the headers of a response besides Content-Length
ShaperHeaders ==
    {IF ct = "" THEN h ELSE HeaderSet(h, "Content-Type", ct) :
        ct \in ShaperContentTypes,
        h \in {NoHeaders, "Access-Control-Allow-Origin" :> "https://other.example"}}

\* the responses the transport hands over: with a declared length; chunked
\* (length -1, no Content-Length); ended by the close of the connection
\* (length -1, no Content-Length, no transfer encoding)
ShaperResponses ==
    {Response(200, HeaderSet(h, "Content-Length", LengthText(n)), n, <<>>) :
        h \in ShaperHeaders, n \in ShaperLengths}
    \cup {Response(200, h, -1, enc) : h \in ShaperHeaders, enc \in {<<>>, <<"chunked">>}}

InitShape ==
    /\ pc = "responded"
    /\ upres \in ShaperResponses
    /\ resp = upres
    /\ inreq = NoRequest
    /\ outreq = NoRequest
    /\ sh = [t \in Shapers |-> IdleShaper]
    /\ declared = 0
    /\ outcome = "none"
    /\ serveCalled = TRUE
    /\ tripCalled = TRUE
    /\ dialed = target.Host
    /\ logs = {}
    /\ networkDataCount = 0
    /\ FreshPool
    /\ StaticTable(NilMap)

\* ReverseProxy runs the variant's ModifyResponse: shape and log
ShapeChunked ==
    /\ pc = "responded"
    /\ resp' = ModifyResponseChunked(resp)
    /\ logs' = logs \cup {"response"}
    /\ pc' = "shaped"
    /\ UNCHANGED <<inreq, outreq, upres, outcome, serveCalled, tripCalled, dialed,
                   networkDataCount, sh, declared, tableVars, poolVars>>

NextShape ==
    ShapeChunked

SpecShape == InitShape /\ [][NextShape]_vars

\* the response meets the size/type policy as the claim words it
PolicyTriggers(res) ==
    /\ \/ HeaderGet(res.Header, "Content-Type")
              \in {"video/mp4", "video/webm", "application/octet-stream"}
       \/ res.ContentLength >= 1048576
    /\ \A i \in 1..Len(res.TransferEncoding) : res.TransferEncoding[i] # "chunked"

\* the response has its Content-Length and transfer encoding as res has them
SameFraming(res) ==
    /\ ("Content-Length" \in DOMAIN resp.Header) <=> ("Content-Length" \in DOMAIN res.Header)
    /\ HeaderGet(resp.Header, "Content-Length") = HeaderGet(res.Header, "Content-Length")
    /\ resp.TransferEncoding = res.TransferEncoding
    /\ resp.ContentLength = res.ContentLength

\* C14: the variant's ModifyResponse removes Content-Length and makes the
\* transfer encoding chunked when the Content-Type is video/mp4, video/webm
\* or application/octet-stream or the declared length is at least 1048576,
\* and the response is not chunked yet; in every other case it leaves
\* Content-Length and the transfer encoding as they were.
C14_ChunkedPolicy ==
    pc = "shaped" =>
        IF PolicyTriggers(upres)
        THEN /\ "Content-Length" \notin DOMAIN resp.Header
             /\ resp.TransferEncoding = <<"chunked">>
        ELSE SameFraming(upres)

\* a video/mp4 response below the threshold has been made chunked
C14_Witness ==
    /\ pc = "shaped"
    /\ HeaderGet(upres.Header, "Content-Type") = "video/mp4"
    /\ upres.ContentLength = 500000
    /\ "Content-Length" \in DOMAIN upres.Header
    /\ "Content-Length" \notin DOMAIN resp.Header
    /\ resp.TransferEncoding = <<"chunked">>

\* C15, as claimed: in the pipeline of main.go, a proxied response for a
\* matched path that meets the size/type policy goes to the client without
\* Content-Length and as a chunked one.
C15_PolicyReachesClient ==
    (outcome = "proxied" /\ Matched /\ PolicyTriggers(upres)) =>
        /\ "Content-Length" \notin DOMAIN resp.Header
        /\ resp.TransferEncoding = <<"chunked">>

(***************************************************************************)
(* SpecDual: one request through the variant that looks the route up in    *)
(* the handler and again in the Director (part_002), while the reloader    *)
(* swaps the table.  Each findRoute call holds the read lock from its      *)
(* first to its last access and loadRoutes assigns under the write lock,   *)
(* so each lookup and each swap is one step here.                          *)
(***************************************************************************)
\* the tables routes.json declares one after the other
DualTables ==
    FileTables \cup {NilMap}

\* the requests the server hands to the variant's handler
DualRequests ==
    {Request("", "", "proxy.example:8443", p, h) :
        p \in RootedPaths, h \in ClientHeaders}
    \cup {Request("http", "other.example", "other.example", p, NoHeaders) :
        p \in RootedPaths}

\* the variant's proxy.Director: an unmatched request is left as it is
DirectorSilent(table, req) ==
    LET found == FindRouteIn(table, req.URLPath)
    IN  IF ~found.found
        THEN req
        ELSE Request(target.Scheme, target.Host, target.Host,
                     FilepathJoin(<<Slash, found.route, found.remaining>>),
                     HeaderDel(HeaderDel(ApplyFixedHeaders(req.Header),
                                         "Accept-Encoding"), "If-Modified-Since"))

InitDual ==
    /\ HandlerIdle
    /\ FreshPool
    /\ \E t \in DualTables : StaticTable(t)

\* the server hands a request to the handler
ReceiveDual ==
    /\ pc = "idle"
    /\ \E req \in DualRequests : inreq' = req
    /\ pc' = "handler"
    /\ UNCHANGED <<outreq, resp, upres, outcome, serveCalled, tripCalled, dialed, logs,
                   networkDataCount, sh, declared, tableVars, poolVars>>

\* handler: findRoute(r.URL.Path) finds nothing: log, http.NotFound, return
HandlerNotFoundDual ==
    /\ pc = "handler"
    /\ ~FindRouteIn(ActiveTable, inreq.URLPath).found
    /\ logs' = logs \cup {"404"}
    /\ outcome' = "notfound"
    /\ pc' = "done"
    /\ UNCHANGED <<inreq, outreq, resp, upres, serveCalled, tripCalled, dialed,
                   networkDataCount, sh, declared, tableVars, poolVars>>

\* handler: findRoute(r.URL.Path) finds a route: proxy.ServeHTTP(w, r)
HandlerServeDual ==
    /\ pc = "handler"
    /\ FindRouteIn(ActiveTable, inreq.URLPath).found
    /\ serveCalled' = TRUE
    /\ outreq' = inreq
    /\ pc' = "serve"
    /\ UNCHANGED <<inreq, resp, upres, outcome, tripCalled, dialed, logs,
                   networkDataCount, sh, declared, tableVars, poolVars>>

\* ReverseProxy runs the Director on the clone: the second findRoute
RunDirectorDual ==
    /\ pc = "serve"
    /\ outreq' = DirectorSilent(ActiveTable, outreq)
    /\ logs' = IF FindRouteIn(ActiveTable, outreq.URLPath).found
               THEN logs \cup {"forward"} ELSE logs
    /\ pc' = "directed"
    /\ UNCHANGED <<inreq, resp, upres, outcome, serveCalled, tripCalled, dialed,
                   networkDataCount, sh, declared, tableVars, poolVars>>

\* a reload cycle finds routes.json rewritten and puts its table in place
ReloadSwap ==
    /\ lastMod < MaxTime
    /\ \E t \in DualTables :
          /\ t # ActiveTable
          /\ LET a == FreshAddress(heap)
             IN  /\ heap' = [heap EXCEPT ![a] = Cell(t), ![routes] = Free]
                 /\ routes' = a
          /\ file' = [state |-> "ok", content |-> Document("routes", t),
                      mtime |-> lastMod + 1]
    /\ lastMod' = lastMod + 1
    /\ UNCHANGED <<rw, loader, lk, cyc, prev, due, proxyVars, poolVars>>

NextDual ==
    \/ ReceiveDual
    \/ HandlerNotFoundDual
    \/ HandlerServeDual
    \/ RunDirectorDual
    \/ RoundTripRefused
    \/ RoundTripError
    \/ RoundTripResponse
    \/ ShapeChunked
    \/ CopyBegin
    \/ CopyDone
    \/ CopyFailed
    \/ HandlerLog
    \/ ReloadSwap

SpecDual == InitDual /\ [][NextDual]_vars

\* C19, as claimed: a request that passed the handler's lookup has been
\* rewritten to the fixed upstream origin once the Director has run, and is
\* never handed to the transport as it came.
C19_LookupsAgree ==
    (serveCalled /\ pc \notin {"idle", "handler", "serve"}) =>
        /\ outreq.URLScheme = target.Scheme
        /\ outreq.URLHost = target.Host
        /\ outreq.Host = target.Host

(***************************************************************************)
(* SpecCount: request tasks of main.go inside ModifyResponse side by side. *)
(* networkDataCount += Size is a read of the global, an addition and a     *)
(* write, with no lock around them: the read and the write are two steps.  *)
(* The total is kept in bytes here; the code keeps it in MiB.              *)
(***************************************************************************)
\* most responses one request task shapes, one after the other
MaxShaped == 2

InitCount ==
    /\ HandlerIdle
    /\ FreshPool
    /\ StaticTable(NilMap)

\* ReverseProxy calls ModifyResponse with a response: Size is computed
ShaperEnter(t) ==
    /\ sh[t].pc = "idle"
    /\ sh[t].n < MaxShaped
    /\ \E res \in UpstreamResponses :
          sh' = [sh EXCEPT ![t].pc = "load", ![t].length = res.ContentLength]
    /\ UNCHANGED <<pc, inreq, outreq, resp, upres, outcome, serveCalled, tripCalled,
                   dialed, logs, networkDataCount, declared, tableVars, poolVars>>

\* networkDataCount += Size, first half: the total is read
ShaperLoad(t) ==
    /\ sh[t].pc = "load"
    /\ sh' = [sh EXCEPT ![t].pc = "store", ![t].sum = networkDataCount]
    /\ UNCHANGED <<pc, inreq, outreq, resp, upres, outcome, serveCalled, tripCalled,
                   dialed, logs, networkDataCount, declared, tableVars, poolVars>>

\* networkDataCount += Size, second half: the sum is written; return nil
ShaperStore(t) ==
    /\ sh[t].pc = "store"
    /\ networkDataCount' = sh[t].sum + sh[t].length
    /\ declared' = declared + sh[t].length
    /\ sh' = [sh EXCEPT ![t].pc = "idle", ![t].n = @ + 1]
    /\ UNCHANGED <<pc, inreq, outreq, resp, upres, outcome, serveCalled, tripCalled,
                   dialed, logs, tableVars, poolVars>>

NextCount ==
    \/ \E t \in Shapers : ShaperEnter(t)
    \/ \E t \in Shapers : ShaperLoad(t)
    \/ \E t \in Shapers : ShaperStore(t)

SpecCount == InitCount /\ [][NextCount]_vars

\* C20, as claimed: whenever no task is inside ModifyResponse, the running
\* total is the sum of the declared sizes of the responses shaped so far.
C20_TotalIsSum ==
    (\A t \in Shapers : sh[t].pc = "idle") => networkDataCount = declared

(***************************************************************************)
(* SpecFind: findRoute on every path, under every table of FindTables.     *)
(***************************************************************************)
\* the tables findRoute is run with: every choice of keys among "", "a",
\* "A" and "aa", each key with a target of its own
FindTables ==
    LET targets == (EmptyStr :> <<"a">>) @@ (<<"a">> :> <<"b">>)
                   @@ (<<"A">> :> <<"b", "/", "a">>) @@ (<<"a", "a">> :> <<"/">>)
    IN  {[k \in keys |-> targets[k]] : keys \in SUBSET (DOMAIN targets)}

\* the paths findRoute is called with
FindPaths ==
    StringsUpTo(MaxPathLen)

InitFind ==
    /\ \E t \in FindTables : StaticTable(t)
    /\ HandlerIdle
    /\ FreshPool

NextFind ==
    \/ \E r \in Readers : LookupCall(r, FindPaths)
    \/ \E r \in Readers : LookupRLock(r)
    \/ \E r \in Readers : LookupLoad(r)
    \/ \E r \in Readers : LookupIndex(r)
    \/ \E r \in Readers : LookupReturn(r)
    \/ \E r \in Readers : LookupUsed(r)

SpecFind == InitFind /\ [][NextFind]_vars

\* C5: findRoute(p) reports found exactly when the first segment of p, as
\* it is written, is a key of the active table; it then returns that key's
\* target, and as remainder what follows the "/" that ends the first
\* segment, empty if there is none.  (The first segment of p starts after
\* the "/" p begins with, if it begins with one.)
C5_FindRoute ==
    \A r \in Readers :
        lk[r].pc = "done" =>
            LET p == lk[r].path
                res == lk[r].result
            IN  /\ res.found <=> FirstSegment(p) \in DOMAIN ActiveTable
                /\ res.found =>
                       /\ res.route = ActiveTable[FirstSegment(p)]
                       /\ res.remaining = Remainder(p)

\* findRoute has answered "//a": the first segment is empty, it is a key,
\* and the remainder is "a"
C5_Witness ==
    \E r \in Readers :
        /\ lk[r].pc = "done"
        /\ lk[r].path = <<"/", "/", "a">>
        /\ lk[r].result = RouteResult(<<"a">>, <<"a">>, TRUE)
        /\ <<"A">> \in DOMAIN ActiveTable

=========================================================================
